---- MODULE Spec2Model ----
(***************************************************************************)
(* Disclosure validation and claim synthesis of patent_studio              *)
(* (src/tools/disclosure_processor.py, src/schemas/disclosure_schemas.py). *)
(*                                                                         *)
(* A Python str whose content is only ever measured (len, strip, slice,    *)
(* truthiness) is modelled by its shape: the number of leading whitespace  *)
(* characters, the length of the part that strip() keeps, and the number   *)
(* of trailing whitespace characters.  A whitespace-only string has core   *)
(* 0.  List items and messages, whose identity matters, are tokens.        *)
(*                                                                         *)
(* List fields are always lists (the schema's default_factory), so         *)
(* `not xs or len(xs) == 0` is modelled as Len(xs) = 0.  The field         *)
(* technical_solution may be None: validate_disclosure tests for it        *)
(* (line 98).  A call either returns a value or raises.                    *)
(***************************************************************************)
EXTENDS Integers, Sequences, FiniteSets, TLC

VARIABLES
    disclosure,   \* the PatentDisclosure at hand
    processor,    \* the fields of the DisclosureProcessor
    validation,   \* outcome of the last validate_disclosure(disclosure)
    claims,       \* outcome of the last _generate_claims_from_disclosure(disclosure)
    processed,    \* outcome of the last process_disclosure(disclosure, validate)
    patent,       \* outcome of the last generate_enhanced_patent(disclosure)
    draft_request,      \* outcome of the last disclosure_to_patent_request(disclosure)
    repeated,     \* the operations called again on the unmodified disclosure
    args,         \* the arguments handed to the agent's tools
    report,       \* what each tool returned when last called
    callers,      \* concurrent callers of the shared processor
    frames,       \* the call frame (local variables) of each caller
    session_state \* st.session_state of the submission wizard

toolVars == <<args, report>>

\* the tools of the agent that take a disclosure
Tools == {"validate_disclosure", "process_disclosure_to_patent"}

concVars == <<callers, frames>>

vars == <<disclosure, processor, validation, claims, processed, patent, draft_request,
          repeated, toolVars, concVars, session_state>>

---------------------------------------------------------------------------
(* Bounds of the model *)

MaxSteps == 5

MaxPoints == 6

---------------------------------------------------------------------------
(* Python values *)

None == [none |-> TRUE]

Txt(l, c, t) == [lead |-> l, core |-> c, trail |-> t]

EmptyStr == Txt(0, 0, 0)

StrLen(s) == s.lead + s.core + s.trail

strip(s) == Txt(0, s.core, 0)

Min(a, b) == IF a < b THEN a ELSE b

Max(a, b) == IF a > b THEN a ELSE b

\* s[:n]
Prefix(s, n) ==
    LET l == Min(s.lead, n)
        c == Min(s.core, n - l)
        t == Min(s.trail, n - l - c)
    IN  Txt(l, c, t)

\* bool(s) of an Optional[str]
Truthy(s) == s # None /\ StrLen(s) > 0

\* outcome of a call: a returned value or a raised exception
NotCalled == [status |-> "not_called"]

Returned(v) == [status |-> "returned", value |-> v]

Raised(e) == [status |-> "raised", exc |-> e]

---------------------------------------------------------------------------
(* validate_disclosure: messages *)

ERR_TITLE == "title too short or empty, at least 5 characters"

ERR_INVENTORS == "at least one inventor is required"

ERR_APPLICANT == "applicant name must not be empty"

ERR_FIELD == "technical field too short, at least 10 characters"

ERR_BACKGROUND == "background too short, at least 50 characters"

ERR_PROBLEMS == "at least one technical problem is required"

ERR_SOLUTION == "technical solution must not be empty"

ERR_OVERVIEW == "technical solution overview must not be empty"

ERR_EFFECTS == "at least one beneficial effect is required"

ERR_UTILITY_FIGURES == "a utility model must have figure descriptions"

WARN_EMBODIMENTS == "provide at least one embodiment"

WARN_FIGURES == "provide figure descriptions"

SUGG_INNOVATION == "list the innovation points of the solution"

SUGG_PRIOR_ART == "provide prior art references"

SUGG_EMAIL == "provide a contact email"

---------------------------------------------------------------------------
(* validate_disclosure: the running lists and score, and one operator per  *)
(* check, in the order of the code                                         *)

\* mutant: the lists of the previous call are kept and appended to
StartChecks_Accumulating ==
    IF validation.status = "returned"
    THEN [errors      |-> validation.value.errors,
          warnings    |-> validation.value.warnings,
          suggestions |-> validation.value.suggestions,
          score       |-> 100]
    ELSE [errors |-> <<>>, warnings |-> <<>>, suggestions |-> <<>>, score |-> 100]

StartChecks == [errors |-> <<>>, warnings |-> <<>>, suggestions |-> <<>>, score |-> 100]

AddError(st, msg, weight) ==
    [st EXCEPT !.errors = Append(@, msg), !.score = @ - weight]

AddWarning(st, msg, weight) ==
    [st EXCEPT !.warnings = Append(@, msg), !.score = @ - weight]

AddSuggestion(st, msg) ==
    [st EXCEPT !.suggestions = Append(@, msg)]

\* mutant: the length test without strip()
CheckTitle_NoStrip(d, st) ==
    IF ~Truthy(d.title) \/ StrLen(d.title) < 5
    THEN AddError(st, ERR_TITLE, 15) ELSE st

CheckTitle(d, st) ==
    IF ~Truthy(d.title) \/ StrLen(strip(d.title)) < 5
    THEN AddError(st, ERR_TITLE, 15) ELSE st

CheckInventors(d, st) ==
    IF Len(d.inventors) = 0 THEN AddError(st, ERR_INVENTORS, 10) ELSE st

CheckApplicant(d, st) ==
    IF ~Truthy(d.applicant_name) THEN AddError(st, ERR_APPLICANT, 10) ELSE st

CheckTechnicalField(d, st) ==
    IF ~Truthy(d.technical_field) \/ StrLen(strip(d.technical_field)) < 10
    THEN AddError(st, ERR_FIELD, 10) ELSE st

CheckBackground(d, st) ==
    IF ~Truthy(d.background_description) \/ StrLen(strip(d.background_description)) < 50
    THEN AddError(st, ERR_BACKGROUND, 10) ELSE st

CheckProblems(d, st) ==
    IF Len(d.technical_problems) = 0 THEN AddError(st, ERR_PROBLEMS, 15) ELSE st

\* mutant: two independent tests instead of if / elif
CheckSolution_Independent(d, st) ==
    IF d.technical_solution = None
    THEN AddError(st, ERR_SOLUTION, 15)
    ELSE IF ~Truthy(d.technical_solution.overview)
         THEN AddError(AddError(st, ERR_SOLUTION, 15), ERR_OVERVIEW, 10)
         ELSE st

CheckSolution(d, st) ==
    IF d.technical_solution = None
    THEN AddError(st, ERR_SOLUTION, 15)
    ELSE IF ~Truthy(d.technical_solution.overview)
         THEN AddError(st, ERR_OVERVIEW, 10)
         ELSE st

CheckEffects(d, st) ==
    IF Len(d.beneficial_effects) = 0 THEN AddError(st, ERR_EFFECTS, 10) ELSE st

\* mutant: the test inverted
CheckEmbodiments_Inverted(d, st) ==
    IF Len(d.embodiments) # 0 THEN AddWarning(st, WARN_EMBODIMENTS, 5) ELSE st

CheckEmbodiments(d, st) ==
    IF Len(d.embodiments) = 0 THEN AddWarning(st, WARN_EMBODIMENTS, 5) ELSE st

CheckFigures(d, st) ==
    IF Len(d.figure_descriptions) = 0 THEN AddWarning(st, WARN_FIGURES, 5) ELSE st

\* mutant: the error without its penalty
CheckUtilityModelFigures_NoPenalty(d, st) ==
    IF d.patent_type = "utility_model" /\ Len(d.figure_descriptions) = 0
    THEN AddError(st, ERR_UTILITY_FIGURES, 0) ELSE st

CheckUtilityModelFigures(d, st) ==
    IF d.patent_type = "utility_model" /\ Len(d.figure_descriptions) = 0
    THEN AddError(st, ERR_UTILITY_FIGURES, 10) ELSE st

\* reads disclosure.technical_solution.innovation_points: the caller decides
\* what happens when technical_solution is None
SuggestInnovationPoints(d, st) ==
    IF Len(d.technical_solution.innovation_points) = 0
    THEN AddSuggestion(st, SUGG_INNOVATION) ELSE st

SuggestPriorArt(d, st) ==
    IF Len(d.prior_art_references) = 0 THEN AddSuggestion(st, SUGG_PRIOR_ART) ELSE st

\* mutant: the missing e-mail counted as a warning
SuggestContactEmail_AsWarning(d, st) ==
    IF ~Truthy(d.contact_email) THEN AddWarning(st, SUGG_EMAIL, 5) ELSE st

SuggestContactEmail(d, st) ==
    IF ~Truthy(d.contact_email) THEN AddSuggestion(st, SUGG_EMAIL) ELSE st

\* mutant: the ceiling without the floor
ClampScore_NoFloor(score) == Min(100, score)

ClampScore(score) == Max(0, Min(100, score))

\* mutant: off by one
IsValid_AllowOneError(errors) == Len(errors) <= 1

IsValid(errors) == Len(errors) = 0

\* the checks of lines 73-120, which run before the first attribute access
\* through technical_solution
\* mutant: the beneficial effects checked first, the recommended content
\* in the other order
RequiredAndRecommendedChecks_Reordered(d) ==
    LET s1  == CheckEffects(d, StartChecks)
        s2  == CheckTitle(d, s1)
        s3  == CheckInventors(d, s2)
        s4  == CheckApplicant(d, s3)
        s5  == CheckTechnicalField(d, s4)
        s6  == CheckBackground(d, s5)
        s7  == CheckProblems(d, s6)
        s8  == CheckSolution(d, s7)
        s9  == CheckFigures(d, s8)
        s10 == CheckEmbodiments(d, s9)
    IN  CheckUtilityModelFigures(d, s10)

RequiredAndRecommendedChecks(d) ==
    LET s1  == CheckTitle(d, StartChecks)
        s2  == CheckInventors(d, s1)
        s3  == CheckApplicant(d, s2)
        s4  == CheckTechnicalField(d, s3)
        s5  == CheckBackground(d, s4)
        s6  == CheckProblems(d, s5)
        s7  == CheckSolution(d, s6)
        s8  == CheckEffects(d, s7)
        s9  == CheckEmbodiments(d, s8)
        s10 == CheckFigures(d, s9)
    IN  CheckUtilityModelFigures(d, s10)

validate_disclosure(d) ==
    LET s11 == RequiredAndRecommendedChecks(d)
    IN  IF d.technical_solution = None
        THEN \* line 123: None has no attribute innovation_points
             Raised("AttributeError")
        ELSE LET s12 == SuggestInnovationPoints(d, s11)
                 s13 == SuggestPriorArt(d, s12)
                 s14 == SuggestContactEmail(d, s13)
             IN  Returned([is_valid           |-> IsValid(s14.errors),
                           errors             |-> s14.errors,
                           warnings           |-> s14.warnings,
                           suggestions        |-> s14.suggestions,
                           completeness_score |-> ClampScore(s14.score)])

---------------------------------------------------------------------------
(* _generate_claims_from_disclosure: a claim is the text of one f-string;  *)
(* the record names the template and holds the values formatted into it    *)

FALLBACK_PREPROCESSING == "the solution further comprises a data preprocessing step"

FALLBACK_VERIFICATION == "the solution further comprises a result verification step"

FALLBACK_SCENARIOS == "the solution can be applied to multiple scenarios"

SystemModules == {"processing module", "control module", "output module"}

\* mutant: the sub-clauses numbered from 0
IndependentClaim_ZeroBased(d) ==
    LET sol == d.technical_solution
    IN  IF Len(sol.key_steps) > 0
        THEN [kind |-> "independent", no |-> 1, title |-> d.title,
              clauses |-> [i \in 1..Len(sol.key_steps) |->
                              [n |-> i - 1, text |-> sol.key_steps[i]]]]
        ELSE [kind |-> "independent", no |-> 1, title |-> d.title,
              including |-> Prefix(sol.overview, 50)]

\* claim1: "1. {title}, characterized in that:" and its sub-clauses
IndependentClaim(d) ==
    LET sol == d.technical_solution
    IN  IF Len(sol.key_steps) > 0
        THEN [kind |-> "independent", no |-> 1, title |-> d.title,
              clauses |-> [i \in 1..Len(sol.key_steps) |->
                              [n |-> (i - 1) + 1, text |-> sol.key_steps[i]]]]
        ELSE [kind |-> "independent", no |-> 1, title |-> d.title,
              including |-> Prefix(sol.overview, 50)]

\* "{i}. according to claim 1 ... {title}, characterized in that: {point}."
DependentClaim(no, title, feature) ==
    [kind |-> "dependent", no |-> no, ref |-> 1, title |-> title, feature |-> feature]

\* mutant: off by one
CappedPoints_Five(points) == SubSeq(points, 1, Min(Len(points), 5))

\* innovation_points[:4]
CappedPoints(points) == SubSeq(points, 1, Min(Len(points), 4))

\* enumerate(innovation_points[:4], 2)
PointClaims(d) ==
    LET pts == CappedPoints(d.technical_solution.innovation_points)
    IN  [k \in 1..Len(pts) |-> DependentClaim(k + 1, d.title, pts[k])]

\* mutant: the third fallback claim left out
FallbackClaims_Two(d) ==
    << DependentClaim(2, d.title, FALLBACK_PREPROCESSING),
       DependentClaim(3, d.title, FALLBACK_VERIFICATION) >>

FallbackClaims(d) ==
    << DependentClaim(2, d.title, FALLBACK_PREPROCESSING),
       DependentClaim(3, d.title, FALLBACK_VERIFICATION),
       DependentClaim(4, d.title, FALLBACK_SCENARIOS) >>

\* mutant: the fallback claims emitted after the point claims too
DependentClaims_PlusFallback(d) ==
    IF Len(d.technical_solution.innovation_points) > 0
    THEN PointClaims(d) \o FallbackClaims(d)
    ELSE FallbackClaims(d)

DependentClaims(d) ==
    IF Len(d.technical_solution.innovation_points) > 0
    THEN PointClaims(d)
    ELSE FallbackClaims(d)

\* "5. a system implementing the method of any of claims 1-4 ..."
SystemClaim ==
    [kind |-> "system", no |-> 5, refFrom |-> 1, refTo |-> 4, modules |-> SystemModules]

generate_claims_from_disclosure(d) ==
    IF d.technical_solution = None
    THEN \* line 423: None has no attribute key_steps
         Raised("AttributeError")
    ELSE Returned(<<IndependentClaim(d)>> \o DependentClaims(d) \o <<SystemClaim>>)

---------------------------------------------------------------------------
(* disclosure_to_patent_request: a rendered text is the sequence of its     *)
(* lines                                                                   *)

\* mutant: the limitations are printed whether given or not
ProblemLines_AlwaysLimitations(n, problem) ==
    <<[line |-> "problem", n |-> n, text |-> problem.description]>>
    \o (IF Truthy(problem.existing_solutions)
        THEN <<[line |-> "existing_solutions", text |-> problem.existing_solutions]>>
        ELSE <<>>)
    \o <<[line |-> "limitations", text |-> problem.limitations]>>
    \o <<[line |-> "blank"]>>

ProblemLines(n, problem) ==
    <<[line |-> "problem", n |-> n, text |-> problem.description]>>
    \o (IF Truthy(problem.existing_solutions)
        THEN <<[line |-> "existing_solutions", text |-> problem.existing_solutions]>>
        ELSE <<>>)
    \o (IF Truthy(problem.limitations)
        THEN <<[line |-> "limitations", text |-> problem.limitations]>>
        ELSE <<>>)
    \o <<[line |-> "blank"]>>

\* problems_text
ProblemsText(problems) ==
    LET F[i \in 0..Len(problems)] ==
            IF i = 0 THEN <<>> ELSE F[i - 1] \o ProblemLines(i, problems[i])
    IN  F[Len(problems)]

NumberedLines(kind, items) == [i \in 1..Len(items) |-> [line |-> kind, n |-> i, text |-> items[i]]]

\* mutant: the innovation points capped as in claim synthesis
SolutionText_Capped(sol) ==
    <<[line |-> "overview", text |-> sol.overview], [line |-> "blank"]>>
    \o (IF Len(sol.key_steps) > 0
        THEN <<[line |-> "key_steps_header"]>> \o NumberedLines("key_step", sol.key_steps)
             \o <<[line |-> "blank"]>>
        ELSE <<>>)
    \o (IF Len(sol.innovation_points) > 0
        THEN <<[line |-> "innovation_points_header"]>>
             \o NumberedLines("innovation_point", CappedPoints(sol.innovation_points))
             \o <<[line |-> "blank"]>>
        ELSE <<>>)
    \o (IF Truthy(sol.implementation_details)
        THEN <<[line |-> "implementation_details_header"],
               [line |-> "implementation_details", text |-> sol.implementation_details]>>
        ELSE <<>>)

\* solution_text
SolutionText(sol) ==
    <<[line |-> "overview", text |-> sol.overview], [line |-> "blank"]>>
    \o (IF Len(sol.key_steps) > 0
        THEN <<[line |-> "key_steps_header"]>> \o NumberedLines("key_step", sol.key_steps)
             \o <<[line |-> "blank"]>>
        ELSE <<>>)
    \o (IF Len(sol.innovation_points) > 0
        THEN <<[line |-> "innovation_points_header"]>>
             \o NumberedLines("innovation_point", sol.innovation_points)
             \o <<[line |-> "blank"]>>
        ELSE <<>>)
    \o (IF Truthy(sol.implementation_details)
        THEN <<[line |-> "implementation_details_header"],
               [line |-> "implementation_details", text |-> sol.implementation_details]>>
        ELSE <<>>)

\* effects_text: "- {effect}" joined by newlines
EffectsText(effects) == [i \in 1..Len(effects) |-> [line |-> "bullet", text |-> effects[i]]]

EMBODIMENTS_PLACEHOLDER == "to be supplemented"

\* invention_description
InventionDescription(d) ==
    [title       |-> d.title,
     overview    |-> d.technical_solution.overview,
     embodiments |-> IF Len(d.embodiments) > 0 THEN d.embodiments
                     ELSE <<EMBODIMENTS_PLACEHOLDER>>]

\* mutant: an unrecognized value is taken for a design
ToPatentType_DesignDefault(patent_type) ==
    IF patent_type = "utility_model" THEN "UTILITY_MODEL"
    ELSE IF patent_type = "invention" THEN "INVENTION"
    ELSE "DESIGN"

\* the PatentType of a patent_type string
ToPatentType(patent_type) ==
    IF patent_type = "utility_model" THEN "UTILITY_MODEL"
    ELSE IF patent_type = "design" THEN "DESIGN"
    ELSE "INVENTION"

disclosure_to_patent_request(d) ==
    IF d.technical_solution = None
    THEN \* line 164: None has no attribute overview
         Raised("AttributeError")
    ELSE Returned([invention_description |-> InventionDescription(d),
                   technical_field       |-> d.technical_field,
                   background_info       |-> d.background_description,
                   specific_problems     |-> ProblemsText(d.technical_problems),
                   solution              |-> SolutionText(d.technical_solution),
                   beneficial_effects    |-> EffectsText(d.beneficial_effects),
                   patent_type           |-> ToPatentType(d.patent_type),
                   language              |-> "zh"])

---------------------------------------------------------------------------
(* process_disclosure *)

ADDRESS_PLACEHOLDER ==
    [lead |-> 0, core |-> 3, trail |-> 0, literal |-> "to be filled in"]

\* ApplicantInfo(...)
ApplicantInfoOf(d) ==
    [name    |-> d.applicant_name,
     address |-> IF Truthy(d.applicant_address) THEN d.applicant_address
                 ELSE ADDRESS_PLACEHOLDER,
     country |-> "CN",
     email   |-> d.contact_email,
     phone   |-> d.contact_phone]

\* [InventorInfo(name=name, country=...) for name in disclosure.inventors]
InventorInfoOf(d) == [i \in 1..Len(d.inventors) |-> [name |-> d.inventors[i], country |-> "CN"]]

GENERIC_BRIEF_DESCRIPTION == "generic brief description of the figures"

GENERIC_INVENTION_CONTENT == "generic invention content"

\* PatentWriter.generate_patent_application: the writer is not among the
\* sources; it returns an application that carries the request's type and
\* technical field, the applicant and the inventors, and generic texts
generate_patent_application(request, applicant_info, inventor_info) ==
    [title             |-> "generated title",
     patent_type       |-> request.patent_type,
     applicant         |-> applicant_info,
     inventors         |-> inventor_info,
     technical_field   |-> request.technical_field,
     brief_description |-> GENERIC_BRIEF_DESCRIPTION,
     invention_content |-> GENERIC_INVENTION_CONTENT]

\* mutant: warnings block too
GateBlocks_OnWarnings(validation_result) ==
    ~validation_result.is_valid \/ Len(validation_result.warnings) > 0

\* mutant: the gate left open
GateBlocks_Never(validation_result) == FALSE

\* line 230: not validation_result.is_valid
GateBlocks(validation_result) == ~validation_result.is_valid

\* the outcome of process_disclosure(disclosure, validate), with the calls
\* it made on the way
\* mutant: the disclosure is validated whatever the flag
Validates_Always(validate) == TRUE

\* `if validate:`
Validates(validate) == validate

process_disclosure(d, validate) ==
    LET vr      == validate_disclosure(d)
        checked == IF Validates(validate) THEN <<"validate_disclosure">> ELSE <<>>
        result  == IF Validates(validate) THEN vr.value ELSE None
        request == disclosure_to_patent_request(d)
        app     == generate_patent_application(request.value, ApplicantInfoOf(d),
                                               InventorInfoOf(d))
    IN  IF Validates(validate) /\ vr.status = "raised"
        THEN [status |-> "raised", exc |-> vr.exc, validate |-> validate, calls |-> checked]
        ELSE IF Validates(validate) /\ GateBlocks(vr.value)
        THEN [status |-> "returned", value |-> <<None, vr.value>>, validate |-> validate,
              calls |-> checked]
        ELSE IF request.status = "raised"
        THEN [status |-> "raised", exc |-> request.exc, validate |-> validate,
              calls |-> checked \o <<"disclosure_to_patent_request">>]
        ELSE [status |-> "returned",
              value  |-> <<[app EXCEPT !.title = d.title], result>>,
              validate |-> validate,
              calls  |-> checked \o <<"disclosure_to_patent_request",
                                      "generate_patent_application">>]

---------------------------------------------------------------------------
(* _format_enhanced_application and generate_enhanced_patent: the document  *)
(* is the sequence of its sections                                         *)

\* type_names.get(application.patent_type, <invention>)
TypeLabel(patent_type) ==
    IF patent_type = "UTILITY_MODEL" THEN "utility model patent"
    ELSE IF patent_type = "DESIGN" THEN "design patent"
    ELSE "invention patent"

\* the problems of the invention-content section
ContentProblemLines(problems) ==
    LET F[i \in 0..Len(problems)] ==
            IF i = 0 THEN <<>>
            ELSE F[i - 1]
                 \o <<[line |-> "problem", n |-> i, text |-> problems[i].description]>>
                 \o (IF Truthy(problems[i].limitations)
                     THEN <<[line |-> "limitations", text |-> problems[i].limitations]>>
                     ELSE <<>>)
    IN  F[Len(problems)]

\* mutant: the innovation points capped as in claim synthesis
InventionContentSection_Capped(d) ==
    [section  |-> "invention_content",
     problems |-> ContentProblemLines(d.technical_problems),
     overview |-> d.technical_solution.overview,
     steps    |-> NumberedLines("step", d.technical_solution.key_steps),
     points   |-> NumberedLines("innovation_point",
                                CappedPoints(d.technical_solution.innovation_points)),
     effects  |-> NumberedLines("effect", d.beneficial_effects)]

InventionContentSection(d) ==
    [section  |-> "invention_content",
     problems |-> ContentProblemLines(d.technical_problems),
     overview |-> d.technical_solution.overview,
     steps    |-> NumberedLines("step", d.technical_solution.key_steps),
     points   |-> NumberedLines("innovation_point", d.technical_solution.innovation_points),
     effects  |-> NumberedLines("effect", d.beneficial_effects)]

\* mutant: no fallback when there are no figure descriptions
FiguresSection_NoFallback(application, d) ==
    [section |-> "figures", lines |-> d.figure_descriptions]

FiguresSection(application, d) ==
    [section |-> "figures",
     lines   |-> IF Len(d.figure_descriptions) > 0 THEN d.figure_descriptions
                 ELSE <<application.brief_description>>]

EmbodimentsSection(application, d) ==
    [section |-> "embodiments",
     lines   |-> IF Len(d.embodiments) > 0 THEN NumberedLines("embodiment", d.embodiments)
                 ELSE <<[line |-> "invention_content", text |-> application.invention_content]>>,
     details |-> IF Truthy(d.technical_solution.implementation_details)
                 THEN d.technical_solution.implementation_details ELSE None]

ABSTRACT_PROBLEM_FALLBACK == "improving on the shortcomings of the prior art"

ABSTRACT_EFFECT_FALLBACK == "improved efficiency"

AbstractSection(application, d) ==
    [section  |-> "abstract",
     title    |-> application.title,
     field    |-> application.technical_field,
     problem  |-> IF Len(d.technical_problems) > 0 THEN d.technical_problems[1].description
                  ELSE ABSTRACT_PROBLEM_FALLBACK,
     overview |-> Prefix(d.technical_solution.overview, 100),
     effect   |-> IF Len(d.beneficial_effects) > 0 THEN d.beneficial_effects[1]
                  ELSE ABSTRACT_EFFECT_FALLBACK]

format_enhanced_application(application, d) ==
    << [section |-> "patent_type", label |-> TypeLabel(application.patent_type)],
       [section |-> "title", text |-> application.title],
       [section |-> "applicant", name |-> application.applicant.name,
        address |-> application.applicant.address,
        inventors |-> [i \in 1..Len(application.inventors) |-> application.inventors[i].name]],
       [section |-> "technical_field", text |-> application.technical_field],
       [section |-> "background", text |-> d.background_description],
       InventionContentSection(d),
       FiguresSection(application, d),
       EmbodimentsSection(application, d),
       [section |-> "claims", claims |-> generate_claims_from_disclosure(d).value],
       AbstractSection(application, d) >>

\* mutant: the suggestions listed after the warnings
FailureReport_WithSuggestions(validation_result) ==
    [kind  |-> "validation_failure",
     lines |-> [i \in 1..Len(validation_result.errors) |->
                   [mark |-> "error", text |-> validation_result.errors[i]]]
               \o [i \in 1..Len(validation_result.warnings) |->
                   [mark |-> "warning", text |-> validation_result.warnings[i]]]
               \o [i \in 1..Len(validation_result.suggestions) |->
                   [mark |-> "suggestion", text |-> validation_result.suggestions[i]]]]

\* error_msg of lines 283-289
FailureReport(validation_result) ==
    [kind  |-> "validation_failure",
     lines |-> [i \in 1..Len(validation_result.errors) |->
                   [mark |-> "error", text |-> validation_result.errors[i]]]
               \o [i \in 1..Len(validation_result.warnings) |->
                   [mark |-> "warning", text |-> validation_result.warnings[i]]]]

\* the outcome of generate_enhanced_patent(disclosure), with the calls it made
generate_enhanced_patent(d) ==
    LET pd == process_disclosure(d, TRUE)
    IN  IF pd.status = "raised"
        THEN [status |-> "raised", exc |-> pd.exc, calls |-> <<"process_disclosure">> \o pd.calls]
        ELSE IF pd.value[1] = None
        THEN [status |-> "returned", value |-> FailureReport(pd.value[2]),
              calls  |-> <<"process_disclosure">> \o pd.calls]
        ELSE [status |-> "returned",
              value  |-> [kind     |-> "application",
                          sections |-> format_enhanced_application(pd.value[1], d)],
              calls  |-> <<"process_disclosure">> \o pd.calls
                         \o <<"_format_enhanced_application",
                              "_generate_claims_from_disclosure">>]

---------------------------------------------------------------------------
(* Disclosures *)

StepText(i) == "step" \o ToString(i)

KeySteps(n) == [i \in 1..n |-> StepText(i)]

PointTexts == {"pa", "pb"}

PointLists == UNION {[1..n -> PointTexts] : n \in 0..MaxPoints}

Problem1 == [description |-> "problem1", existing_solutions |-> None, limitations |-> None]

\* Scenario A of the specification: a 7-character title, one inventor, a
\* 12-character technical field, a 60-character background, one problem,
\* an overview with 5 key steps and no innovation points, one effect
ScenarioA ==
    [title                  |-> Txt(0, 7, 0),
     patent_type            |-> "invention",
     inventors              |-> <<"inventor1">>,
     applicant_name         |-> Txt(0, 4, 0),
     applicant_address      |-> None,
     contact_email          |-> None,
     contact_phone          |-> None,
     technical_field        |-> Txt(0, 12, 0),
     background_description |-> Txt(0, 60, 0),
     technical_problems     |-> <<Problem1>>,
     technical_solution     |-> [overview               |-> Txt(0, 60, 0),
                                 key_steps              |-> KeySteps(5),
                                 innovation_points      |-> <<>>,
                                 implementation_details |-> None],
     beneficial_effects     |-> <<"effect1">>,
     embodiments            |-> <<>>,
     figure_descriptions    |-> <<>>,
     prior_art_references   |-> <<>>,
     status                 |-> "draft"]

\* the shapes of a string around a minimum trimmed length k: empty,
\* whitespace only, padded with k - 1 trimmed characters, k characters
Around(k) == {EmptyStr, Txt(k + 1, 0, 0), Txt(1, k - 1, 1), Txt(0, k, 0)}

OneOrNone(x) == {<<>>, <<x>>}

PatentTypes == {"invention", "utility_model", "design"}

\* the technical_solution values the validator tells apart
ValidatorSolutions ==
    {None} \cup
    {[overview |-> ov, key_steps |-> <<>>, innovation_points |-> pts,
      implementation_details |-> None] :
        ov \in {EmptyStr, Txt(0, 60, 0)}, pts \in {<<>>, <<"pa">>}}

ValidatorInputs ==
    {[title                  |-> t,
      patent_type            |-> pt,
      inventors              |-> inv,
      applicant_name         |-> app,
      applicant_address      |-> None,
      contact_email          |-> em,
      contact_phone          |-> None,
      technical_field        |-> tf,
      background_description |-> bg,
      technical_problems     |-> pr,
      technical_solution     |-> sol,
      beneficial_effects     |-> eff,
      embodiments            |-> emb,
      figure_descriptions    |-> fig,
      prior_art_references   |-> <<>>,
      status                 |-> "draft"] :
        t \in Around(5), pt \in PatentTypes, inv \in OneOrNone("inventor1"),
        app \in {EmptyStr, Txt(0, 4, 0)}, em \in {None, EmptyStr, Txt(0, 9, 0)},
        tf \in {EmptyStr, Txt(1, 9, 1), Txt(0, 10, 0)},
        bg \in {EmptyStr, Txt(1, 49, 1), Txt(0, 50, 0)},
        pr \in OneOrNone(Problem1), sol \in ValidatorSolutions,
        eff \in OneOrNone("effect1"), emb \in OneOrNone("embodiment1"),
        fig \in OneOrNone("figure1")}

\* the technical_solution values claim synthesis tells apart
SynthesisSolutions ==
    {None} \cup
    {[overview |-> ov, key_steps |-> KeySteps(n), innovation_points |-> pts,
      implementation_details |-> None] :
        ov \in {Txt(0, 30, 0), Txt(0, 60, 0)}, n \in 0..MaxSteps, pts \in PointLists}

SynthesisInputs ==
    {[ScenarioA EXCEPT !.title = t, !.patent_type = pt, !.technical_solution = sol,
                       !.figure_descriptions = fig, !.prior_art_references = pa] :
        t \in {Txt(1, 4, 1), Txt(0, 7, 0)}, pt \in {"invention", "utility_model"},
        sol \in SynthesisSolutions, fig \in OneOrNone("figure1"),
        pa \in OneOrNone("reference1")}

Inputs == ValidatorInputs \cup SynthesisInputs

---------------------------------------------------------------------------
(* The submission wizard (src/ui/disclosure_ui.py): st.session_state and    *)
(* the four step functions.  One run of the script renders the step named  *)
(* by current_step: the widgets return what the user has typed, the step   *)
(* saves them, and at most one button of the step reports a press.         *)

\* the text inputs of step 1 marked with * and tested at line 312
Step1Required == {"title", "technical_field", "applicant_name", "inventors"}

\* the other text inputs of step 1
Step1Optional == {"applicant_address", "contact_email"}

\* the options of the patent type selectbox
PatentTypeOptions == {"invention", "utility_model", "design"}

\* the text areas of step 2 tested at line 422
Step2Required == {"background_description", "technical_problems",
                  "technical_solution", "beneficial_effects"}

\* the other text areas of step 2
Step2Optional == {"key_steps", "innovation_points", "embodiments",
                  "figure_descriptions"}

\* what a text widget can return: nothing typed, or some text
WidgetTexts == {EmptyStr, Txt(0, 1, 0)}

\* the values returned by the widgets of step 1 in one run
Step1Widgets ==
    {[k \in Step1Required \cup Step1Optional \cup {"patent_type"} |->
         IF k \in Step1Required THEN req[k]
         ELSE IF k = "patent_type" THEN ptype ELSE opt] :
       req \in [Step1Required -> WidgetTexts], opt \in WidgetTexts,
       ptype \in PatentTypeOptions}

\* the values returned by the widgets of step 2 in one run
Step2Widgets ==
    {[k \in Step2Required \cup Step2Optional |->
         IF k \in Step2Required THEN req[k] ELSE opt] :
       req \in [Step2Required -> WidgetTexts], opt \in WidgetTexts}

\* the buttons a step renders; "none" is a run no button started
Step1Buttons == {"none", "next"}

Step2Buttons == {"none", "back", "next"}

Step3Buttons == {"validate", "back", "next"}

Step4Buttons == {"generate", "back", "restart"}

\* what run_disclosure_agent comes back with: (result, None) or (None, error)
AgentRuns == {"success", "error"}

\* {} of Python
EmptyDict == [k \in {} |-> EmptyStr]

\* dict.update
Update(dict, other) ==
    [k \in DOMAIN dict \cup DOMAIN other |->
        IF k \in DOMAIN other THEN other[k] ELSE dict[k]]

\* all([...]) of strings
all(values) == \A i \in 1..Len(values) : Truthy(values[i])

step1_is_valid_Always(w) == TRUE

\* line 312
step1_is_valid(w) ==
    all(<<w["title"], w["technical_field"], w["applicant_name"], w["inventors"]>>)

\* line 422
step2_is_valid(w) ==
    all(<<w["background_description"], w["technical_problems"],
          w["technical_solution"], w["beneficial_effects"]>>)

\* init_session_state on a fresh session
init_session_state ==
    [disclosure_data |-> EmptyDict,
     current_step |-> 1,
     validation_result |-> None,
     patent_result |-> None]

\* step1_basic_info: save the widgets, then the button, disabled unless valid
step1_basic_info(state, w, button) ==
    LET saved == [state EXCEPT !.disclosure_data = Update(@, w)]
    IN  IF button = "next" /\ step1_is_valid(w)
        THEN [saved EXCEPT !.current_step = 2]
        ELSE saved

\* step2_technical_content: save the widgets, then the buttons
step2_technical_content(state, w, button) ==
    LET saved == [state EXCEPT !.disclosure_data = Update(@, w)]
    IN  IF button = "back"
        THEN [saved EXCEPT !.current_step = 1]
        ELSE IF button = "next" /\ step2_is_valid(w)
        THEN [saved EXCEPT !.current_step = 3]
        ELSE saved

\* step3_validation: the validate button stores the agent's answer
step3_validation(state, button, run) ==
    IF button = "validate"
    THEN [state EXCEPT !.validation_result = [status |-> run]]
    ELSE IF button = "back"
    THEN [state EXCEPT !.current_step = 2]
    ELSE IF button = "next"
    THEN [state EXCEPT !.current_step = 4]
    ELSE state

\* step4_generate: the generate button stores the agent's answer
step4_generate(state, button, run) ==
    IF button = "generate"
    THEN [state EXCEPT !.patent_result = [status |-> run]]
    ELSE IF button = "back"
    THEN [state EXCEPT !.current_step = 3]
    ELSE IF button = "restart"
    THEN [disclosure_data |-> EmptyDict,
          current_step |-> 1,
          validation_result |-> None,
          patent_result |-> None]
    ELSE state

---------------------------------------------------------------------------
(* The processor applied to a disclosure *)

\* DisclosureProcessor.__init__
NewProcessor ==
    [patent_writer   |-> "PatentWriter",
     required_fields |-> <<"title", "inventors", "applicant_name", "technical_field",
                           "background_description", "technical_problems",
                           "technical_solution", "beneficial_effects">>]

InitOn(inputs) ==
    /\ disclosure \in inputs
    /\ processor = NewProcessor
    /\ validation = NotCalled
    /\ claims = NotCalled
    /\ processed = NotCalled
    /\ patent = NotCalled
    /\ draft_request = NotCalled
    /\ repeated = {}
    /\ args = None
    /\ report = [tool \in Tools |-> NotCalled]
    /\ callers = <<>>
    /\ frames = <<>>
    /\ session_state = init_session_state

Init == InitOn(Inputs)

\* DisclosureProcessor.validate_disclosure(disclosure)
Validate ==
    /\ validation' = validate_disclosure(disclosure)
    /\ UNCHANGED <<disclosure, processor, claims, processed, patent, draft_request, repeated, toolVars, concVars, session_state>>

\* DisclosureProcessor._generate_claims_from_disclosure(disclosure)
GenerateClaims ==
    /\ claims' = generate_claims_from_disclosure(disclosure)
    /\ UNCHANGED <<disclosure, processor, validation, processed, patent, draft_request, repeated, toolVars, concVars, session_state>>

Next == Validate \/ GenerateClaims

Spec == Init /\ [][Next]_vars

\* the disclosures the pipeline tells apart
PipelineSolutions ==
    {None} \cup
    {[overview |-> ov, key_steps |-> KeySteps(n), innovation_points |-> pts,
      implementation_details |-> None] :
        ov \in {EmptyStr, Txt(0, 120, 0)}, n \in {0, 2},
        pts \in {<<>>, <<"pa">>, <<"pa", "pb", "pa", "pb", "pb">>}}

PipelineInputs ==
    {[ScenarioA EXCEPT !.title = t, !.patent_type = pt, !.technical_problems = pr,
                       !.technical_solution = sol, !.beneficial_effects = eff,
                       !.embodiments = emb, !.figure_descriptions = fig,
                       !.contact_email = em, !.prior_art_references = pa] :
        t \in {Txt(1, 4, 1), Txt(0, 7, 0)}, pt \in PatentTypes,
        pr \in OneOrNone(Problem1), sol \in PipelineSolutions,
        eff \in OneOrNone("effect1"), emb \in OneOrNone("embodiment1"),
        fig \in OneOrNone("figure1"), em \in {None, Txt(0, 9, 0)},
        pa \in OneOrNone("reference1")}

PipelineInit == InitOn(PipelineInputs)

\* DisclosureProcessor.process_disclosure(disclosure, validate)
ProcessDisclosure ==
    /\ \E validate \in BOOLEAN : processed' = process_disclosure(disclosure, validate)
    /\ UNCHANGED <<disclosure, processor, validation, claims, patent, draft_request, repeated, toolVars, concVars, session_state>>

\* DisclosureProcessor.generate_enhanced_patent(disclosure)
GenerateEnhancedPatent ==
    /\ patent' = generate_enhanced_patent(disclosure)
    /\ UNCHANGED <<disclosure, processor, validation, claims, processed, draft_request, repeated, toolVars, concVars, session_state>>

PipelineNext == Validate \/ GenerateClaims \/ ProcessDisclosure \/ GenerateEnhancedPatent

PipelineSpec == PipelineInit /\ [][PipelineNext]_vars

\* the disclosures on which each operation is called a second time
RepeatInputs ==
    {[ScenarioA EXCEPT !.title = t, !.patent_type = pt, !.technical_solution = sol,
                       !.figure_descriptions = fig] :
        t \in {Txt(1, 4, 1), Txt(0, 7, 0)}, pt \in {"invention", "utility_model"},
        sol \in PipelineSolutions, fig \in OneOrNone("figure1")}

RepeatInit == InitOn(RepeatInputs)

\* validate_disclosure(disclosure) once more, the disclosure untouched
ValidateAgain ==
    /\ validation # NotCalled
    /\ validation' = validate_disclosure(disclosure)
    /\ repeated' = repeated \cup {"validate_disclosure"}
    /\ UNCHANGED <<disclosure, processor, claims, processed, patent, draft_request, toolVars, concVars, session_state>>

\* _generate_claims_from_disclosure(disclosure) once more
GenerateClaimsAgain ==
    /\ claims # NotCalled
    /\ claims' = generate_claims_from_disclosure(disclosure)
    /\ repeated' = repeated \cup {"_generate_claims_from_disclosure"}
    /\ UNCHANGED <<disclosure, processor, validation, processed, patent, draft_request, toolVars, concVars, session_state>>

\* generate_enhanced_patent(disclosure) once more
GenerateEnhancedPatentAgain ==
    /\ patent # NotCalled
    /\ patent' = generate_enhanced_patent(disclosure)
    /\ repeated' = repeated \cup {"generate_enhanced_patent"}
    /\ UNCHANGED <<disclosure, processor, validation, claims, processed, draft_request, toolVars, concVars, session_state>>

RepeatNext ==
    \/ Validate \/ GenerateClaims \/ GenerateEnhancedPatent
    \/ ValidateAgain \/ GenerateClaimsAgain \/ GenerateEnhancedPatentAgain

RepeatSpec == RepeatInit /\ [][RepeatNext]_vars

\* the disclosures the normalizer tells apart
ProblemShapes(description) ==
    {[description |-> description, existing_solutions |-> ex, limitations |-> lim] :
        ex \in {None, EmptyStr, Txt(0, 8, 0)}, lim \in {None, EmptyStr, Txt(0, 9, 0)}}

ProblemLists ==
    {<<>>} \cup {<<p1>> : p1 \in ProblemShapes("problem1")}
    \cup {<<p1, p2>> : p1 \in ProblemShapes("problem1"), p2 \in ProblemShapes("problem2")}

NormalizeSolutions ==
    {None} \cup
    {[overview |-> Txt(0, 60, 0), key_steps |-> KeySteps(n), innovation_points |-> pts,
      implementation_details |-> det] :
        n \in {0, 2},
        pts \in {<<>>, <<"pa">>, <<"pa", "pb", "pc", "pd", "pe">>},
        det \in {None, EmptyStr, Txt(0, 30, 0)}}

NormalizeInputs ==
    {[ScenarioA EXCEPT !.patent_type = pt, !.technical_problems = pr,
                       !.technical_solution = sol] :
        pt \in PatentTypes \cup {"unknown", ""}, pr \in ProblemLists,
        sol \in NormalizeSolutions}

NormalizeInit == InitOn(NormalizeInputs)

\* DisclosureProcessor.disclosure_to_patent_request(disclosure)
Normalize ==
    /\ draft_request' = disclosure_to_patent_request(disclosure)
    /\ UNCHANGED <<disclosure, processor, validation, claims, processed, patent, repeated,
                   toolVars, concVars, session_state>>

NormalizeNext == Normalize \/ Validate

NormalizeSpec == NormalizeInit /\ [][NormalizeNext]_vars

---------------------------------------------------------------------------
(* The agent's tools validate_disclosure and process_disclosure_to_patent  *)

\* a delimited str argument, by the segments split() cuts it into; the
\* empty str is cut into the one segment ""
Delimited(segments) == [segments |-> segments]

BLANK == " "

\* seg.strip()
StripSegment(seg) == IF seg = BLANK THEN "" ELSE seg

\* `if key_steps`: neither None nor the empty str
Given(s) == s # None /\ s # Delimited(<<"">>)

\* [x.strip() for x in s.split(sep)]
StrippedItems(s) == [i \in 1..Len(s.segments) |-> StripSegment(s.segments[i])]

NonBlank(item) == item # ""

\* [x.strip() for x in s.split(sep) if x.strip()]
NonBlankItems(s) == SelectSeq(StrippedItems(s), NonBlank)

\* [x.strip() for x in s.split(";")] if s else []
OptionalItems(s) == IF Given(s) THEN StrippedItems(s) ELSE <<>>

\* PatentDisclosure(...) as the validate_disclosure tool builds it
ValidationToolDisclosure(a) ==
    [title                  |-> a.title,
     patent_type            |-> a.patent_type,
     inventors              |-> StrippedItems(a.inventors),
     applicant_name         |-> a.applicant_name,
     applicant_address      |-> None,
     contact_email          |-> None,
     contact_phone          |-> None,
     technical_field        |-> a.technical_field,
     background_description |-> a.background_description,
     technical_problems     |-> <<[description        |-> a.technical_problems,
                                   existing_solutions |-> None,
                                   limitations        |-> None]>>,
     technical_solution     |-> [overview               |-> a.technical_solution,
                                 key_steps              |-> <<>>,
                                 innovation_points      |-> <<>>,
                                 implementation_details |-> None],
     beneficial_effects     |-> StrippedItems(a.beneficial_effects),
     embodiments            |-> <<>>,
     figure_descriptions    |-> <<>>,
     prior_art_references   |-> <<>>,
     status                 |-> "draft"]

\* status=DisclosureStatus.SUBMITTED
ProcessingToolStatus == "submitted"

\* PatentDisclosure(...) as the process_disclosure_to_patent tool builds it
ProcessingToolDisclosure(a) ==
    [title                  |-> a.title,
     patent_type            |-> a.patent_type,
     inventors              |-> NonBlankItems(a.inventors),
     applicant_name         |-> a.applicant_name,
     applicant_address      |-> a.applicant_address,
     contact_email          |-> a.contact_email,
     contact_phone          |-> None,
     technical_field        |-> a.technical_field,
     background_description |-> a.background_description,
     technical_problems     |-> <<[description        |-> a.technical_problems,
                                   existing_solutions |-> None,
                                   limitations        |-> None]>>,
     technical_solution     |-> [overview               |-> a.technical_solution,
                                 key_steps              |-> OptionalItems(a.key_steps),
                                 innovation_points      |-> OptionalItems(a.innovation_points),
                                 implementation_details |-> None],
     beneficial_effects     |-> NonBlankItems(a.beneficial_effects),
     embodiments            |-> OptionalItems(a.embodiments),
     figure_descriptions    |-> OptionalItems(a.figure_descriptions),
     prior_art_references   |-> <<>>,
     status                 |-> ProcessingToolStatus]

\* the report of the validate_disclosure tool
ValidationReport(result) ==
    [kind        |-> "validation_report",
     passed      |-> result.is_valid,
     score       |-> result.completeness_score,
     errors      |-> result.errors,
     warnings    |-> result.warnings,
     suggestions |-> result.suggestions]

\* except Exception as e: return f"...{str(e)}"
ToolError(exc) == [kind |-> "tool_error", exc |-> exc]

\* the arguments the tools are called with
ToolArgs ==
    {[title                  |-> t,
      inventors              |-> inv,
      applicant_name         |-> Txt(0, 4, 0),
      technical_field        |-> Txt(0, 12, 0),
      background_description |-> Txt(0, 60, 0),
      technical_problems     |-> "problem1",
      technical_solution     |-> ov,
      key_steps              |-> ks,
      innovation_points      |-> ip,
      beneficial_effects     |-> eff,
      embodiments            |-> emb,
      figure_descriptions    |-> fig,
      patent_type            |-> pt,
      applicant_address      |-> None,
      contact_email          |-> None] :
        t \in {EmptyStr, Txt(0, 7, 0)},
        inv \in {Delimited(<<"">>), Delimited(<<"ann">>), Delimited(<<"ann", BLANK, "bob">>)},
        ov \in {EmptyStr, Txt(0, 60, 0)},
        ks \in {None, Delimited(<<"step1", "step2">>)},
        ip \in {None, Delimited(<<"">>), Delimited(<<"pa">>)},
        eff \in {Delimited(<<"">>), Delimited(<<"effect1", "effect2">>)},
        emb \in {None, Delimited(<<"embodiment1">>)},
        fig \in {None, Delimited(<<"figure1">>)},
        pt \in {"invention", "utility_model"}}

\* before a tool is called no disclosure has been built
AgentInit ==
    /\ disclosure = None
    /\ processor = NewProcessor
    /\ validation = NotCalled
    /\ claims = NotCalled
    /\ processed = NotCalled
    /\ patent = NotCalled
    /\ draft_request = NotCalled
    /\ repeated = {}
    /\ args \in ToolArgs
    /\ report = [tool \in Tools |-> NotCalled]
    /\ callers = <<>>
    /\ frames = <<>>
    /\ session_state = init_session_state

\* the tool validate_disclosure(title, inventors, ...)
ValidateDisclosureTool ==
    /\ disclosure' = ValidationToolDisclosure(args)
    /\ validation' = validate_disclosure(disclosure')
    /\ report' = [report EXCEPT !["validate_disclosure"] =
                      IF validation'.status = "raised"
                      THEN Returned(ToolError(validation'.exc))
                      ELSE Returned(ValidationReport(validation'.value))]
    /\ UNCHANGED <<processor, claims, processed, patent, draft_request, repeated, args, concVars, session_state>>

\* the tool process_disclosure_to_patent(title, inventors, ...)
ProcessDisclosureToPatentTool ==
    /\ disclosure' = ProcessingToolDisclosure(args)
    /\ validation' = validate_disclosure(disclosure')
    /\ processed' = process_disclosure(disclosure', TRUE)
    /\ patent' = generate_enhanced_patent(disclosure')
    /\ report' = [report EXCEPT !["process_disclosure_to_patent"] =
                      IF patent'.status = "raised"
                      THEN Returned(ToolError(patent'.exc))
                      ELSE Returned(patent'.value)]
    /\ UNCHANGED <<processor, claims, draft_request, repeated, args, concVars, session_state>>

AgentNext == ValidateDisclosureTool \/ ProcessDisclosureToPatentTool

AgentSpec == AgentInit /\ [][AgentNext]_vars

---------------------------------------------------------------------------
(* Concurrent callers of the one shared processor                          *)

NumCallers == 2

Callers == 1..NumCallers

Operations ==
    {"validate_disclosure", "disclosure_to_patent_request",
     "_generate_claims_from_disclosure"}

\* the disclosures of the callers
ConcInputs ==
    {ScenarioA,
     [ScenarioA EXCEPT !.title = Txt(1, 4, 1), !.patent_type = "utility_model",
                       !.beneficial_effects = <<>>],
     [ScenarioA EXCEPT !.technical_solution.innovation_points = <<"pa", "pb">>,
                       !.technical_solution.key_steps = KeySteps(2),
                       !.embodiments = <<"embodiment1">>,
                       !.contact_email = Txt(0, 9, 0)]}

\* mutant: every call keeps its local variables in the same place
Frame_Shared(c) == 1

\* the frame of caller c's call: local variables belong to the call
Frame(c) == c

\* the local variables of the three methods as their first lines set them
FreshLocals ==
    [errors        |-> StartChecks.errors,
     warnings      |-> StartChecks.warnings,
     suggestions   |-> StartChecks.suggestions,
     score         |-> StartChecks.score,
     problems_text |-> <<>>,
     solution_text |-> <<>>,
     effects_text  |-> <<>>,
     claims        |-> <<>>]

FirstPhase(op) ==
    IF op = "validate_disclosure" THEN "required"
    ELSE IF op = "disclosure_to_patent_request" THEN "problems"
    ELSE "independent"

NextPhase(pc) ==
    IF pc = "required" THEN "recommended"
    ELSE IF pc = "recommended" THEN "suggestions"
    ELSE IF pc = "problems" THEN "solution"
    ELSE IF pc = "solution" THEN "effects"
    ELSE IF pc = "independent" THEN "dependent"
    ELSE IF pc = "dependent" THEN "system"
    ELSE "return"

\* lines 73-107
RequiredChecks(d, st) ==
    LET s1 == CheckTitle(d, st)
        s2 == CheckInventors(d, s1)
        s3 == CheckApplicant(d, s2)
        s4 == CheckTechnicalField(d, s3)
        s5 == CheckBackground(d, s4)
        s6 == CheckProblems(d, s5)
        s7 == CheckSolution(d, s6)
    IN  CheckEffects(d, s7)

\* lines 109-120
RecommendedChecks(d, st) ==
    CheckUtilityModelFigures(d, CheckFigures(d, CheckEmbodiments(d, st)))

\* lines 122-130
Suggestions(d, st) ==
    SuggestContactEmail(d, SuggestPriorArt(d, SuggestInnovationPoints(d, st)))

\* one phase of a call on disclosure d, on the call's local variables
RunPhase(pc, d, locals) ==
    IF pc = "required" THEN RequiredChecks(d, locals)
    ELSE IF pc = "recommended" THEN RecommendedChecks(d, locals)
    ELSE IF pc = "suggestions" THEN Suggestions(d, locals)
    ELSE IF pc = "problems"
    THEN [locals EXCEPT !.problems_text = @ \o ProblemsText(d.technical_problems)]
    ELSE IF pc = "solution"
    THEN [locals EXCEPT !.solution_text = SolutionText(d.technical_solution)]
    ELSE IF pc = "effects"
    THEN [locals EXCEPT !.effects_text = EffectsText(d.beneficial_effects)]
    ELSE IF pc = "independent"
    THEN [locals EXCEPT !.claims = Append(@, IndependentClaim(d))]
    ELSE IF pc = "dependent"
    THEN [locals EXCEPT !.claims = @ \o DependentClaims(d)]
    ELSE [locals EXCEPT !.claims = Append(@, SystemClaim)]

\* the return statement of each method
ReturnValue(op, d, locals) ==
    IF op = "validate_disclosure"
    THEN Returned([is_valid           |-> IsValid(locals.errors),
                   errors             |-> locals.errors,
                   warnings           |-> locals.warnings,
                   suggestions        |-> locals.suggestions,
                   completeness_score |-> ClampScore(locals.score)])
    ELSE IF op = "disclosure_to_patent_request"
    THEN Returned([invention_description |-> InventionDescription(d),
                   technical_field       |-> d.technical_field,
                   background_info       |-> d.background_description,
                   specific_problems     |-> locals.problems_text,
                   solution              |-> locals.solution_text,
                   beneficial_effects    |-> locals.effects_text,
                   patent_type           |-> ToPatentType(d.patent_type),
                   language              |-> "zh"])
    ELSE Returned(locals.claims)

ConcInit ==
    /\ disclosure = None
    /\ processor = NewProcessor
    /\ validation = NotCalled
    /\ claims = NotCalled
    /\ processed = NotCalled
    /\ patent = NotCalled
    /\ draft_request = NotCalled
    /\ repeated = {}
    /\ args = None
    /\ report = [tool \in Tools |-> NotCalled]
    /\ callers \in [Callers -> {[disclosure |-> d, op |-> "none", pc |-> "idle",
                                 result |-> NotCalled] : d \in ConcInputs}]
    /\ frames = [c \in Callers |-> FreshLocals]
    /\ session_state = init_session_state

notConcVars == <<disclosure, processor, validation, claims, processed, patent, draft_request,
                 repeated, toolVars, session_state>>

\* caller c enters a method of the shared processor
Begin(c) ==
    /\ callers[c].pc \in {"idle", "done"}
    /\ \E op \in Operations :
           callers' = [callers EXCEPT ![c].op = op, ![c].pc = FirstPhase(op),
                                      ![c].result = NotCalled]
    /\ frames' = [frames EXCEPT ![Frame(c)] = FreshLocals]
    /\ UNCHANGED notConcVars

\* caller c's call runs its next phase
Step(c) ==
    /\ callers[c].pc \notin {"idle", "return", "done"}
    /\ frames' = [frames EXCEPT ![Frame(c)] =
                      RunPhase(callers[c].pc, callers[c].disclosure, @)]
    /\ callers' = [callers EXCEPT ![c].pc = NextPhase(@)]
    /\ UNCHANGED notConcVars

\* caller c's call returns
Return(c) ==
    /\ callers[c].pc = "return"
    /\ callers' = [callers EXCEPT
                      ![c].result = ReturnValue(callers[c].op, callers[c].disclosure,
                                                frames[Frame(c)]),
                      ![c].pc = "done"]
    /\ UNCHANGED frames
    /\ UNCHANGED notConcVars

ConcNext == \E c \in Callers : Begin(c) \/ Step(c) \/ Return(c)

ConcSpec == ConcInit /\ [][ConcNext]_vars

---------------------------------------------------------------------------
(* The submission wizard: one action per step function *)

\* a fresh browser session; the processor is not involved
WizardInit ==
    /\ disclosure = None
    /\ processor = NewProcessor
    /\ validation = NotCalled
    /\ claims = NotCalled
    /\ processed = NotCalled
    /\ patent = NotCalled
    /\ draft_request = NotCalled
    /\ repeated = {}
    /\ args = None
    /\ report = [tool \in Tools |-> NotCalled]
    /\ callers = <<>>
    /\ frames = <<>>
    /\ session_state = init_session_state

notWizardVars == <<disclosure, processor, validation, claims, processed, patent,
                   draft_request, repeated, toolVars, concVars>>

\* main, current_step == 1
Step1BasicInfo ==
    /\ session_state.current_step = 1
    /\ \E w \in Step1Widgets, button \in Step1Buttons :
           session_state' = step1_basic_info(session_state, w, button)
    /\ UNCHANGED notWizardVars

\* main, current_step == 2
Step2TechnicalContent ==
    /\ session_state.current_step = 2
    /\ \E w \in Step2Widgets, button \in Step2Buttons :
           session_state' = step2_technical_content(session_state, w, button)
    /\ UNCHANGED notWizardVars

\* main, current_step == 3
Step3Validation ==
    /\ session_state.current_step = 3
    /\ \E button \in Step3Buttons, run \in AgentRuns :
           session_state' = step3_validation(session_state, button, run)
    /\ UNCHANGED notWizardVars

\* main, current_step == 4
Step4Generate ==
    /\ session_state.current_step = 4
    /\ \E button \in Step4Buttons, run \in AgentRuns :
           session_state' = step4_generate(session_state, button, run)
    /\ UNCHANGED notWizardVars

WizardNext == Step1BasicInfo \/ Step2TechnicalContent \/ Step3Validation \/ Step4Generate

WizardSpec == WizardInit /\ [][WizardNext]_vars

---------------------------------------------------------------------------
(* Vocabulary of the properties *)

Validated == validation.status = "returned"

Synthesized == claims.status = "returned"

\* the running score after the checks of lines 73-120, before clamping
RunningScore(d) == RequiredAndRecommendedChecks(d).score

InSeq(x, seq) == \E i \in 1..Len(seq) : seq[i] = x

TitleTooShort(t) == StrLen(t) = 0 \/ t.core < 5

ScenarioB == [ScenarioA EXCEPT !.patent_type = "utility_model"]

\* every required field empty, no embodiments, no figures, a utility model
MaximallyDeficient(d) ==
    /\ StrLen(d.title) = 0
    /\ d.inventors = <<>>
    /\ StrLen(d.applicant_name) = 0
    /\ StrLen(d.technical_field) = 0
    /\ StrLen(d.background_description) = 0
    /\ d.technical_problems = <<>>
    /\ \/ d.technical_solution = None
       \/ StrLen(d.technical_solution.overview) = 0
    /\ d.beneficial_effects = <<>>
    /\ d.embodiments = <<>>
    /\ d.figure_descriptions = <<>>
    /\ d.patent_type = "utility_model"

Weight(failed, w) == IF failed THEN w ELSE 0

Count(failed) == IF failed THEN 1 ELSE 0

SolutionAbsent(d) == d.technical_solution = None

OverviewAbsent(d) ==
    d.technical_solution # None /\ StrLen(d.technical_solution.overview) = 0

UtilityModelWithoutFigures(d) ==
    d.patent_type = "utility_model" /\ d.figure_descriptions = <<>>

\* S of the table of weights
TablePenalty(d) ==
      Weight(TitleTooShort(d.title), 15)
    + Weight(d.inventors = <<>>, 10)
    + Weight(StrLen(d.applicant_name) = 0, 10)
    + Weight(StrLen(d.technical_field) = 0 \/ d.technical_field.core < 10, 10)
    + Weight(StrLen(d.background_description) = 0 \/ d.background_description.core < 50, 10)
    + Weight(d.technical_problems = <<>>, 15)
    + Weight(SolutionAbsent(d), 15)
    + Weight(OverviewAbsent(d), 10)
    + Weight(d.beneficial_effects = <<>>, 10)
    + Weight(d.embodiments = <<>>, 5)
    + Weight(d.figure_descriptions = <<>>, 5)
    + Weight(UtilityModelWithoutFigures(d), 10)

TableErrors(d) ==
      Count(TitleTooShort(d.title))
    + Count(d.inventors = <<>>)
    + Count(StrLen(d.applicant_name) = 0)
    + Count(StrLen(d.technical_field) = 0 \/ d.technical_field.core < 10)
    + Count(StrLen(d.background_description) = 0 \/ d.background_description.core < 50)
    + Count(d.technical_problems = <<>>)
    + Count(SolutionAbsent(d))
    + Count(OverviewAbsent(d))
    + Count(d.beneficial_effects = <<>>)
    + Count(UtilityModelWithoutFigures(d))

TableWarnings(d) == Count(d.embodiments = <<>>) + Count(d.figure_descriptions = <<>>)

\* the result agrees with the table of weights
AgreesWithTable(d, v) ==
    /\ v.completeness_score = Max(0, 100 - TablePenalty(d))
    /\ Len(v.errors) = TableErrors(d)
    /\ Len(v.warnings) = TableWarnings(d)

FixIf(failed, fixed) == IF failed THEN {fixed} ELSE {}

\* the disclosures that differ from d in one field, which fails its check
\* in d and satisfies it in the other
OneFieldFixed(d) ==
         FixIf(TitleTooShort(d.title), [d EXCEPT !.title = Txt(0, 7, 0)])
    \cup FixIf(d.inventors = <<>>, [d EXCEPT !.inventors = <<"inventor1">>])
    \cup FixIf(StrLen(d.applicant_name) = 0, [d EXCEPT !.applicant_name = Txt(0, 4, 0)])
    \cup FixIf(d.technical_field.core < 10, [d EXCEPT !.technical_field = Txt(0, 12, 0)])
    \cup FixIf(d.background_description.core < 50,
               [d EXCEPT !.background_description = Txt(0, 60, 0)])
    \cup FixIf(d.technical_problems = <<>>, [d EXCEPT !.technical_problems = <<Problem1>>])
    \cup (IF OverviewAbsent(d)
          THEN {[d EXCEPT !.technical_solution.overview = Txt(0, 60, 0)]}
          ELSE {})
    \cup FixIf(d.beneficial_effects = <<>>, [d EXCEPT !.beneficial_effects = <<"effect1">>])
    \cup FixIf(d.embodiments = <<>>, [d EXCEPT !.embodiments = <<"embodiment1">>])
    \cup FixIf(d.figure_descriptions = <<>>,
               [d EXCEPT !.figure_descriptions = <<"figure1">>])

KindsOf(cs) == [i \in 1..Len(cs) |-> cs[i].kind]

NumberOfKind(cs, kind) == Cardinality({i \in 1..Len(cs) : cs[i].kind = kind})

\* the texts of list items formatted into a claim
TextsIn(c) ==
    IF c.kind = "dependent" THEN {c.feature}
    ELSE IF c.kind = "independent" /\ "clauses" \in DOMAIN c
         THEN {c.clauses[i].text : i \in 1..Len(c.clauses)}
         ELSE {}

\* the features of the dependent claims, in claim order
SelectFeatures(cs) ==
    LET F[i \in 0..Len(cs)] ==
            IF i = 0 THEN <<>>
            ELSE IF cs[i].kind = "dependent" THEN Append(F[i - 1], cs[i].feature)
                 ELSE F[i - 1]
    IN  F[Len(cs)]

---------------------------------------------------------------------------
(* Properties *)

\* C1: in every validation result, is_valid is true exactly when errors is
\* empty, whatever the warnings, the suggestions and the score are.
C1_GateCorrectness ==
    Validated =>
        (validation.value.is_valid <=> validation.value.errors = <<>>)

\* C1 witness: a valid result that carries warnings, suggestions and a
\* score below 100.
C1_Witness ==
    /\ Validated
    /\ validation.value.is_valid
    /\ Len(validation.value.warnings) = 2
    /\ Len(validation.value.suggestions) = 3
    /\ validation.value.completeness_score = 90

\* C2: every returned completeness_score lies in 0..100, and the score of a
\* maximally deficient disclosure, whose penalties sum to more than 100,
\* is exactly 0.
C2_ScoreClamped ==
    Validated =>
        /\ validation.value.completeness_score >= 0
        /\ validation.value.completeness_score <= 100
        /\ MaximallyDeficient(disclosure) =>
              /\ TablePenalty(disclosure) > 100
              /\ validation.value.completeness_score = 0

\* C2 witness: a result for a maximally deficient disclosure whose running
\* score went below zero.
C2_Witness ==
    /\ Validated
    /\ MaximallyDeficient(disclosure)
    /\ RunningScore(disclosure) < 0

\* C3: validating a disclosure without technical_solution returns a result
\* that is not valid and holds the solution-missing error; no exception.
C3_NeverRaises ==
    (validation # NotCalled /\ disclosure.technical_solution = None) =>
        /\ validation.status = "returned"
        /\ ~validation.value.is_valid
        /\ InSeq(ERR_SOLUTION, validation.value.errors)

\* C4: for every validated disclosure, a result is returned whose score is
\* max(0, 100 - S), S the sum of the weights of the failing checks, with one
\* error per failing required check and one warning per failing
\* recommended check.
C4_ScoreIsTableSum ==
    validation # NotCalled =>
        /\ validation.status = "returned"
        /\ AgreesWithTable(disclosure, validation.value)

\* Every result that is returned agrees with the table of weights (the
\* part of C4 that the code satisfies).
ReturnedResultAgreesWithTable ==
    Validated => AgreesWithTable(disclosure, validation.value)

\* C5: a utility model without figure descriptions gets the figures warning
\* and the utility-model error, loses 5 + 10 points against the same
\* disclosure with a figure, and is not valid; Scenario B scores 80.
C5_UtilityModelDoublePenalty ==
    (Validated /\ UtilityModelWithoutFigures(disclosure)) =>
        /\ InSeq(WARN_FIGURES, validation.value.warnings)
        /\ InSeq(ERR_UTILITY_FIGURES, validation.value.errors)
        /\ ~validation.value.is_valid
        /\ RunningScore(disclosure) =
              RunningScore([disclosure EXCEPT !.figure_descriptions = <<"figure1">>]) - 15
        /\ disclosure = ScenarioB => validation.value.completeness_score = 80

\* C5 witness: Scenario B validated.
C5_Witness == Validated /\ disclosure = ScenarioB

\* C6: Scenario A is valid with score 90 and no errors, and its claim set
\* is one independent claim of 5 sub-clauses, the three fallback dependent
\* claims and one system claim.
C6_ScenarioA ==
    disclosure = ScenarioA =>
        /\ Validated =>
              /\ validation.value.is_valid
              /\ validation.value.errors = <<>>
              /\ validation.value.completeness_score = 90
        /\ Synthesized =>
              /\ Len(claims.value) = 5
              /\ KindsOf(claims.value) =
                    <<"independent", "dependent", "dependent", "dependent", "system">>
              /\ Len(claims.value[1].clauses) = 5
              /\ SelectFeatures(claims.value) =
                    <<FALLBACK_PREPROCESSING, FALLBACK_VERIFICATION, FALLBACK_SCENARIOS>>

\* C6 witness: Scenario A validated and its claims synthesized.
C6_Witness == disclosure = ScenarioA /\ Validated /\ Synthesized

\* C7: a title that is empty or shorter than 5 characters once trimmed
\* gives the title error, an invalid result, and a running score 15 below
\* that of the same disclosure with a valid title.
C7_TitleError ==
    (Validated /\ TitleTooShort(disclosure.title)) =>
        /\ InSeq(ERR_TITLE, validation.value.errors)
        /\ ~validation.value.is_valid
        /\ RunningScore(disclosure) =
              RunningScore([disclosure EXCEPT !.title = Txt(0, 7, 0)]) - 15

\* C7 witness: a whitespace-only title of 6 characters is the only error.
C7_Witness ==
    /\ Validated
    /\ disclosure.title = Txt(6, 0, 0)
    /\ validation.value.errors = <<ERR_TITLE>>

\* C8: making one failing field satisfy its check never lowers the score.
C8_ScoreMonotone ==
    Validated =>
        \A d2 \in OneFieldFixed(disclosure) :
            /\ validate_disclosure(d2).status = "returned"
            /\ validate_disclosure(d2).value.completeness_score
                  >= validation.value.completeness_score

\* C8 witness: a score clamped at 0 with a failing field left to fix.
C8_Witness ==
    /\ Validated
    /\ RunningScore(disclosure) < 0
    /\ validation.value.completeness_score = 0
    /\ OneFieldFixed(disclosure) # {}

\* C9: a disclosure that passes validation gets at least 5 claims: one
\* independent, at least three dependent, one system claim.
C9_ClaimCountFloor ==
    (Validated /\ validation.value.is_valid /\ Synthesized) =>
        /\ Len(claims.value) >= 5
        /\ NumberOfKind(claims.value, "independent") = 1
        /\ NumberOfKind(claims.value, "dependent") >= 3
        /\ NumberOfKind(claims.value, "system") = 1

\* C10: with 5 or more innovation points there are exactly 4 dependent
\* claims, made of points 1..4 in order, and a later point whose text is
\* not that of one of the first four is in no claim.
C10_InnovationCap ==
    (Synthesized /\ Len(disclosure.technical_solution.innovation_points) >= 5) =>
        LET points == disclosure.technical_solution.innovation_points
        IN  /\ NumberOfKind(claims.value, "dependent") = 4
            /\ SelectFeatures(claims.value) = SubSeq(points, 1, 4)
            /\ \A k \in 5..Len(points) :
                  (\A j \in 1..4 : points[j] # points[k]) =>
                      \A i \in 1..Len(claims.value) : points[k] \notin TextsIn(claims.value[i])

\* C10 witness: six points, the fifth and sixth with a text of their own.
C10_Witness ==
    /\ Synthesized
    /\ disclosure.technical_solution # None
    /\ disclosure.technical_solution.innovation_points =
          <<"pa", "pa", "pa", "pa", "pb", "pb">>

\* the dependent claims, in claim order
SelectDependents(cs) ==
    LET F[i \in 0..Len(cs)] ==
            IF i = 0 THEN <<>>
            ELSE IF cs[i].kind = "dependent" THEN Append(F[i - 1], cs[i])
                 ELSE F[i - 1]
    IN  F[Len(cs)]

\* p is the text of the first characters of s
IsPrefixOf(p, s) ==
    /\ p.lead <= s.lead /\ p.core <= s.core /\ p.trail <= s.trail
    /\ p.core > 0 => p.lead = s.lead
    /\ p.trail > 0 => p.core = s.core

FallbackFeatures == {FALLBACK_PREPROCESSING, FALLBACK_VERIFICATION, FALLBACK_SCENARIOS}

\* C11: the k-th claim is numbered k, claim 1 is the independent claim and
\* the last claim is the system claim, for every number of innovation
\* points.
C11_ContiguousNumbers ==
    Synthesized =>
        /\ \A k \in 1..Len(claims.value) : claims.value[k].no = k
        /\ claims.value[1].kind = "independent"
        /\ claims.value[Len(claims.value)].kind = "system"

\* C12: the claim set ends with its only system claim, which refers to
\* claims 1 through the number of the last dependent claim emitted and
\* names the processing, control and output modules.
C12_SystemClaimRange ==
    Synthesized =>
        LET cs   == claims.value
            deps == SelectDependents(cs)
        IN  /\ NumberOfKind(cs, "system") = 1
            /\ cs[Len(cs)].kind = "system"
            /\ cs[Len(cs)].refFrom = 1
            /\ Len(deps) > 0 => cs[Len(cs)].refTo = deps[Len(deps)].no
            /\ cs[Len(cs)].modules = {"processing module", "control module", "output module"}

\* C13: claim 1 is numbered 1 and carries the title; with key steps it has
\* one sub-clause per step, numbered 1, 2, ... in the order of key_steps;
\* without, its one clause is the first 50 characters of the overview.
C13_IndependentClaim ==
    Synthesized =>
        LET c1  == claims.value[1]
            sol == disclosure.technical_solution
        IN  /\ c1.kind = "independent"
            /\ c1.no = 1
            /\ c1.title = disclosure.title
            /\ sol.key_steps # <<>> =>
                  /\ DOMAIN c1.clauses = 1..Len(sol.key_steps)
                  /\ \A i \in 1..Len(sol.key_steps) :
                        c1.clauses[i] = [n |-> i, text |-> sol.key_steps[i]]
                  /\ "including" \notin DOMAIN c1
            /\ sol.key_steps = <<>> =>
                  /\ "clauses" \notin DOMAIN c1
                  /\ StrLen(c1.including) = Min(50, StrLen(sol.overview))
                  /\ IsPrefixOf(c1.including, sol.overview)

\* C13 witness: three key steps, formatted as three numbered sub-clauses.
C13_Witness ==
    /\ Synthesized
    /\ disclosure.technical_solution # None
    /\ Len(disclosure.technical_solution.key_steps) = 3
    /\ Len(claims.value[1].clauses) = 3

\* C14: without innovation points the dependent claims are the three
\* fallback claims numbered 2, 3, 4; with points there is one dependent
\* claim per point, at most 4, numbered from 2 in point order, each on
\* claim 1 and the title, and no fallback claim.
C14_DependentClaims ==
    Synthesized =>
        LET deps   == SelectDependents(claims.value)
            points == disclosure.technical_solution.innovation_points
        IN  /\ \A k \in 1..Len(deps) :
                  deps[k].no = k + 1 /\ deps[k].ref = 1 /\ deps[k].title = disclosure.title
            /\ points = <<>> =>
                  [k \in 1..Len(deps) |-> deps[k].feature] =
                      <<FALLBACK_PREPROCESSING, FALLBACK_VERIFICATION, FALLBACK_SCENARIOS>>
            /\ points # <<>> =>
                  /\ Len(deps) = Min(Len(points), 4)
                  /\ \A k \in 1..Len(deps) :
                        deps[k].feature = points[k] /\ deps[k].feature \notin FallbackFeatures

\* C14 witness: two innovation points give the dependent claims 2 and 3.
C14_Witness ==
    /\ Synthesized
    /\ disclosure.technical_solution # None
    /\ disclosure.technical_solution.innovation_points = <<"pa", "pb">>
    /\ Len(SelectDependents(claims.value)) = 2


---------------------------------------------------------------------------
(* The pipeline: gate, normalization, assembly *)

Processed == processed.status = "returned"

Patented == patent.status = "returned"

Called(outcome) == outcome.status # "not_called"

\* the steps behind the gate
DownstreamCalls ==
    {"disclosure_to_patent_request", "generate_patent_application",
     "_format_enhanced_application", "_generate_claims_from_disclosure"}

Marked(mark, texts) == [i \in 1..Len(texts) |-> [mark |-> mark, text |-> texts[i]]]

\* C15: when validation yields is_valid = false, process_disclosure with
\* validate=True returns (None, validation_result) having called nothing but
\* the validator, and generate_enhanced_patent returns the failure report,
\* every error and then every warning in validation order with no
\* suggestion, having normalized, synthesized and assembled nothing.
C15_HardGate ==
    (Validated /\ ~validation.value.is_valid) =>
        /\ (Called(processed) /\ processed.validate) =>
               /\ Processed
               /\ processed.value = <<None, validation.value>>
               /\ processed.calls = <<"validate_disclosure">>
        /\ Called(patent) =>
               /\ Patented
               /\ patent.value.kind = "validation_failure"
               /\ patent.value.lines =
                      Marked("error", validation.value.errors)
                      \o Marked("warning", validation.value.warnings)
               /\ \A i \in 1..Len(patent.value.lines) :
                      ~InSeq(patent.value.lines[i].text, validation.value.suggestions)
               /\ \A i \in 1..Len(patent.calls) : patent.calls[i] \notin DownstreamCalls

C15_Witness ==
    /\ Validated /\ ~validation.value.is_valid
    /\ Len(validation.value.errors) >= 2
    /\ Len(validation.value.warnings) >= 2
    /\ Len(validation.value.suggestions) >= 1
    /\ Processed /\ processed.validate /\ processed.value[1] = None
    /\ Patented /\ Len(patent.value.lines) >= 4

SectionsOf(document) == [i \in 1..Len(document.sections) |-> document.sections[i].section]

\* C16: a disclosure with zero errors, whatever its warnings and score, is
\* taken by generate_enhanced_patent through normalization and assembly,
\* and the assembled document is returned, not the failure report.
C16_WarningsNonBlocking ==
    (Validated /\ Len(validation.value.errors) = 0) =>
        /\ (Called(processed) /\ processed.validate) =>
               /\ Processed
               /\ processed.value[1] # None
               /\ processed.value[2] = validation.value
        /\ Called(patent) =>
               /\ Patented
               /\ patent.value.kind = "application"
               /\ SectionsOf(patent.value) =
                      <<"patent_type", "title", "applicant", "technical_field",
                        "background", "invention_content", "figures", "embodiments",
                        "claims", "abstract">>
               /\ \A c \in DownstreamCalls : InSeq(c, patent.calls)

C16_Witness ==
    /\ Validated
    /\ Len(validation.value.errors) = 0
    /\ Len(validation.value.warnings) = 2
    /\ validation.value.completeness_score = 90
    /\ Processed /\ processed.validate /\ processed.value[1] # None
    /\ Patented /\ patent.value.kind = "application"

\* the disclosures that differ from d at most in the three fields that only
\* draw suggestions
SuggestionVariants(d) ==
    {[d EXCEPT !.technical_solution.innovation_points = pts,
               !.prior_art_references = pa,
               !.contact_email = em] :
        pts \in {<<>>, <<"pa">>}, pa \in OneOrNone("reference1"),
        em \in {None, EmptyStr, Txt(0, 9, 0)}}

SameOutcome(r1, r2) ==
    /\ r1.is_valid = r2.is_valid
    /\ r1.errors = r2.errors
    /\ r1.warnings = r2.warnings
    /\ r1.completeness_score = r2.completeness_score

\* C17: disclosures that differ only in innovation_points being empty or
\* not, prior_art_references being empty or not, or contact_email being
\* present or not get the same is_valid, errors, warnings and
\* completeness_score from validate_disclosure and the same gating decision
\* from process_disclosure.
C17_SuggestionsInert ==
    Validated =>
        \A d2 \in SuggestionVariants(disclosure) :
            /\ validate_disclosure(d2).status = "returned"
            /\ SameOutcome(validation.value, validate_disclosure(d2).value)
            /\ Called(processed) =>
                   LET other == process_disclosure(d2, processed.validate)
                   IN  /\ other.status = processed.status
                       /\ (other.value[1] = None) <=> (processed.value[1] = None)

C17_Witness ==
    /\ Validated
    /\ ~validation.value.is_valid
    /\ Len(validation.value.warnings) >= 1
    /\ Len(validation.value.suggestions) = 3
    /\ Processed /\ processed.validate /\ processed.value[1] = None
    /\ \E d2 \in SuggestionVariants(disclosure) :
           Len(validate_disclosure(d2).value.suggestions) = 0

C18_WitnessAssembled ==
    /\ "generate_enhanced_patent" \in repeated
    /\ Patented /\ patent.value.kind = "application"

Built == disclosure # None

\* C19: a disclosure is a draft when created and is in the submitted state
\* only after validate_disclosure has returned is_valid = true for it; a
\* disclosure that fails validation is never submitted, the disclosures the
\* process_disclosure_to_patent tool builds included.
C19_SubmittedOnlyIfValid ==
    Built =>
        /\ disclosure.status \in {"draft", "submitted"}
        /\ disclosure.status = "submitted" =>
               Validated /\ validation.value.is_valid

\* the result of the operation run alone on d
Alone(op, d) ==
    IF op = "validate_disclosure" THEN validate_disclosure(d)
    ELSE IF op = "disclosure_to_patent_request" THEN disclosure_to_patent_request(d)
    ELSE generate_claims_from_disclosure(d)

\* C20: callers running validate_disclosure, disclosure_to_patent_request
\* and claim synthesis on their own disclosures through the one shared
\* processor, in any interleaving, each get the result the operation gives
\* when run alone, and no field of the processor is written.
C20_CallsIsolated ==
    /\ processor = NewProcessor
    /\ \A c \in Callers :
           callers[c].pc = "done" =>
               callers[c].result = Alone(callers[c].op, callers[c].disclosure)

C20_Witness ==
    /\ callers[1].pc = "done"
    /\ callers[1].op = "validate_disclosure"
    /\ Len(callers[1].result.value.errors) >= 2
    /\ callers[2].pc = "dependent"
    /\ callers[2].disclosure # callers[1].disclosure

---------------------------------------------------------------------------
(* The normalizer *)

Normalized == draft_request.status = "returned"

\* C21: disclosure_to_patent_request maps "utility_model" to UTILITY_MODEL,
\* "design" to DESIGN and every other patent_type string, "invention" and
\* unrecognized values alike, to INVENTION, and the patent_type value never
\* makes it raise.
C21_PatentTypeDefault ==
    (Called(draft_request) /\ ~SolutionAbsent(disclosure)) =>
        /\ Normalized
        /\ disclosure.patent_type = "utility_model" =>
               draft_request.value.patent_type = "UTILITY_MODEL"
        /\ disclosure.patent_type = "design" => draft_request.value.patent_type = "DESIGN"
        /\ disclosure.patent_type \notin {"utility_model", "design"} =>
               draft_request.value.patent_type = "INVENTION"

C21_Witness ==
    /\ Normalized
    /\ disclosure.patent_type = "unknown"
    /\ draft_request.value.patent_type = "INVENTION"

\* an optional text that was given
Present(text) == text # None /\ StrLen(text) > 0

\* the number of lines problem p takes: its numbered line, the optional
\* lines and the blank line
LinesOf(p) == 2 + Count(Present(p.existing_solutions)) + Count(Present(p.limitations))

\* where the numbered line of problem i stands in the block
RECURSIVE LineOfProblem(_, _)
LineOfProblem(problems, i) ==
    IF i = 1 THEN 1 ELSE LineOfProblem(problems, i - 1) + LinesOf(problems[i - 1])

\* C22: problems_text is one block in which problem n, in the original
\* order and numbered from 1, gives the line "n. description", then an
\* existing-solutions line exactly when existing_solutions is present, then
\* a limitations line exactly when limitations is present, then a blank
\* line before the next problem.
C22_ProblemsBlock ==
    Normalized =>
        LET problems == disclosure.technical_problems
            block    == draft_request.value.specific_problems
        IN  /\ Len(block) = IF Len(problems) = 0 THEN 0
                            ELSE LineOfProblem(problems, Len(problems))
                                 + LinesOf(problems[Len(problems)]) - 1
            /\ \A i \in 1..Len(problems) :
                   LET at == LineOfProblem(problems, i)
                       ex == Count(Present(problems[i].existing_solutions))
                       li == Count(Present(problems[i].limitations))
                   IN  /\ block[at] = [line |-> "problem", n |-> i,
                                       text |-> problems[i].description]
                       /\ ex = 1 => block[at + 1] =
                              [line |-> "existing_solutions",
                               text |-> problems[i].existing_solutions]
                       /\ li = 1 => block[at + ex + 1] =
                              [line |-> "limitations", text |-> problems[i].limitations]
                       /\ block[at + ex + li + 1] = [line |-> "blank"]

C22_Witness ==
    /\ Normalized
    /\ Len(disclosure.technical_problems) = 2
    /\ Present(disclosure.technical_problems[1].existing_solutions)
    /\ disclosure.technical_problems[1].limitations = None
    /\ disclosure.technical_problems[2].existing_solutions = EmptyStr
    /\ Present(disclosure.technical_problems[2].limitations)
    /\ Len(draft_request.value.specific_problems) = 6

\* the lines a numbered list of n items takes: header, items, blank line
ListLines(n) == IF n > 0 THEN n + 2 ELSE 0

LinesOfKind(block, kinds) == {i \in 1..Len(block) : block[i].line \in kinds}

\* C23: solution_text is one block: the overview; then a numbered key-steps
\* block if and only if key_steps is non-empty; then a numbered
\* innovation-points block holding every point, beyond the fourth too, if
\* and only if innovation_points is non-empty; then the implementation
\* details if and only if present.
C23_SolutionBlock ==
    Normalized =>
        LET sol    == disclosure.technical_solution
            block  == draft_request.value.solution
            steps  == Len(sol.key_steps)
            points == Len(sol.innovation_points)
            first  == 2 + ListLines(steps)
            second == first + ListLines(points)
        IN  /\ block[1] = [line |-> "overview", text |-> sol.overview]
            /\ LinesOfKind(block, {"key_steps_header"}) =
                   IF steps > 0 THEN {3} ELSE {}
            /\ LinesOfKind(block, {"key_step"}) = {3 + i : i \in 1..steps}
            /\ \A i \in 1..steps :
                   block[3 + i] = [line |-> "key_step", n |-> i, text |-> sol.key_steps[i]]
            /\ LinesOfKind(block, {"innovation_points_header"}) =
                   IF points > 0 THEN {first + 1} ELSE {}
            /\ LinesOfKind(block, {"innovation_point"}) = {first + 1 + i : i \in 1..points}
            /\ \A i \in 1..points :
                   block[first + 1 + i] = [line |-> "innovation_point", n |-> i,
                                           text |-> sol.innovation_points[i]]
            /\ LinesOfKind(block, {"implementation_details_header"}) =
                   IF Present(sol.implementation_details) THEN {second + 1} ELSE {}
            /\ LinesOfKind(block, {"implementation_details"}) =
                   IF Present(sol.implementation_details) THEN {second + 2} ELSE {}
            /\ Present(sol.implementation_details) =>
                   block[second + 2].text = sol.implementation_details
            /\ Len(block) = second + 2 * Count(Present(sol.implementation_details))

C23_Witness ==
    /\ Normalized
    /\ Len(disclosure.technical_solution.key_steps) = 2
    /\ Len(disclosure.technical_solution.innovation_points) = 5
    /\ Present(disclosure.technical_solution.implementation_details)
    /\ Len(draft_request.value.solution) = 15

\* as C23_Witness, with nothing but the overview
C23_WitnessBare ==
    /\ Normalized
    /\ Len(draft_request.value.solution) = 2
    /\ disclosure.technical_solution.implementation_details = EmptyStr

---------------------------------------------------------------------------
(* The assembled document *)

Assembled == Patented /\ patent.value.kind = "application"

TenSections ==
    <<"patent_type", "title", "applicant", "technical_field", "background",
      "invention_content", "figures", "embodiments", "claims", "abstract">>

HasText(text) == text # None /\ StrLen(strip(text)) > 0

\* a section that holds something under its heading
Filled(sec) ==
    IF sec.section = "patent_type" THEN sec.label # ""
    ELSE IF sec.section \in {"title", "technical_field", "background"} THEN HasText(sec.text)
    ELSE IF sec.section = "applicant"
    THEN HasText(sec.name) /\ HasText(sec.address) /\ Len(sec.inventors) > 0
    ELSE IF sec.section = "invention_content"
    THEN Len(sec.problems) > 0 /\ HasText(sec.overview) /\ Len(sec.effects) > 0
    ELSE IF sec.section = "figures"
    THEN Len(sec.lines) > 0 /\ \A i \in 1..Len(sec.lines) : sec.lines[i] # ""
    ELSE IF sec.section = "embodiments"
    THEN Len(sec.lines) > 0 /\ \A i \in 1..Len(sec.lines) : sec.lines[i].text # ""
    ELSE IF sec.section = "claims" THEN Len(sec.claims) > 0
    ELSE HasText(sec.title) /\ HasText(sec.field) /\ sec.problem # ""
         /\ HasText(sec.overview) /\ sec.effect # ""

C25_BodyKeepsAllPoints ==
    (Assembled /\ Len(disclosure.technical_solution.innovation_points) > 4) =>
        LET points  == disclosure.technical_solution.innovation_points
            listed  == patent.value.sections[6].points
            claimed == SelectFeatures(patent.value.sections[9].claims)
        IN  /\ Len(listed) = Len(points)
            /\ \A i \in 1..Len(points) : listed[i].n = i /\ listed[i].text = points[i]
            /\ claimed = [i \in 1..4 |-> points[i]]

C25_Witness ==
    /\ Assembled
    /\ Len(disclosure.technical_solution.innovation_points) = 5
    /\ Len(patent.value.sections[6].points) = 5
    /\ NumberOfKind(patent.value.sections[9].claims, "dependent") = 4

---------------------------------------------------------------------------
(* The validator: exclusive solution errors, order of the lists *)

\* the errors collected by a call: those returned, or those gathered up to
\* line 123 when the call raised there
CollectedErrors ==
    IF Validated THEN validation.value.errors
    ELSE RequiredAndRecommendedChecks(disclosure).errors

SolutionPenalty(errors) ==
    Weight(InSeq(ERR_SOLUTION, errors), 15) + Weight(InSeq(ERR_OVERVIEW, errors), 10)

\* C26: the solution-absent error (15) and the overview-absent error (10)
\* exclude each other: at most one of them is reported for a disclosure, so
\* the solution-related penalty is 0, 10 or 15, never 25.
C26_SolutionErrorsExclusive ==
    Called(validation) =>
        /\ ~(InSeq(ERR_SOLUTION, CollectedErrors) /\ InSeq(ERR_OVERVIEW, CollectedErrors))
        /\ SolutionPenalty(CollectedErrors) \in {0, 10, 15}
        /\ Cardinality({i \in 1..Len(CollectedErrors) :
                           CollectedErrors[i] \in {ERR_SOLUTION, ERR_OVERVIEW}}) <= 1

C26_Witness ==
    /\ Validated
    /\ OverviewAbsent(disclosure)
    /\ InSeq(ERR_OVERVIEW, validation.value.errors)
    /\ SolutionPenalty(validation.value.errors) = 10

\* as C26_Witness, for the absent solution
C26_WitnessAbsent ==
    /\ Called(validation)
    /\ SolutionAbsent(disclosure)
    /\ SolutionPenalty(CollectedErrors) = 15

\* the place of a message in the order of the checks
ErrorRank(msg) ==
    IF msg = ERR_TITLE THEN 1
    ELSE IF msg = ERR_INVENTORS THEN 2
    ELSE IF msg = ERR_APPLICANT THEN 3
    ELSE IF msg = ERR_FIELD THEN 4
    ELSE IF msg = ERR_BACKGROUND THEN 5
    ELSE IF msg = ERR_PROBLEMS THEN 6
    ELSE IF msg \in {ERR_SOLUTION, ERR_OVERVIEW} THEN 7
    ELSE IF msg = ERR_EFFECTS THEN 8
    ELSE IF msg = ERR_UTILITY_FIGURES THEN 9
    ELSE 0

WarningRank(msg) ==
    IF msg = WARN_EMBODIMENTS THEN 1 ELSE IF msg = WARN_FIGURES THEN 2 ELSE 0

SuggestionRank(msg) ==
    IF msg = SUGG_INNOVATION THEN 1
    ELSE IF msg = SUGG_PRIOR_ART THEN 2
    ELSE IF msg = SUGG_EMAIL THEN 3
    ELSE 0

\* every message is known and the ranks rise along the list
InOrder(list, Rank(_)) ==
    /\ \A i \in 1..Len(list) : Rank(list[i]) > 0
    /\ \A i, j \in 1..Len(list) : i < j => Rank(list[i]) < Rank(list[j])

\* C27: the errors returned by validate_disclosure follow the order of the
\* checks (title, inventors, applicant, technical field, background,
\* problems, solution or overview, effects) and the utility-model figure
\* error, when present, is the last error; the warnings have embodiments
\* before figures; the suggestions have innovation points, prior art,
\* contact e-mail.
C27_ListsInCheckOrder ==
    Validated =>
        /\ InOrder(validation.value.errors, ErrorRank)
        /\ InSeq(ERR_UTILITY_FIGURES, validation.value.errors) =>
               validation.value.errors[Len(validation.value.errors)] = ERR_UTILITY_FIGURES
        /\ InOrder(validation.value.warnings, WarningRank)
        /\ InOrder(validation.value.suggestions, SuggestionRank)

C27_Witness ==
    /\ Validated
    /\ Len(validation.value.errors) >= 4
    /\ validation.value.errors[1] = ERR_TITLE
    /\ InSeq(ERR_EFFECTS, validation.value.errors)
    /\ validation.value.errors[Len(validation.value.errors)] = ERR_UTILITY_FIGURES
    /\ validation.value.warnings = <<WARN_EMBODIMENTS, WARN_FIGURES>>
    /\ validation.value.suggestions = <<SUGG_INNOVATION, SUGG_PRIOR_ART, SUGG_EMAIL>>

---------------------------------------------------------------------------
(* The agent's tools on the same arguments *)

Reported(tool) == report[tool].status = "returned"

\* C28: when the validate_disclosure tool reports that validation passed,
\* the process_disclosure_to_patent tool called with the same arguments
\* returns an assembled document, not the validation-failure report; both
\* tools build the same inventors and beneficial_effects lists, from an
\* empty or delimiter-only string too.
C28_ToolsAgree ==
    (/\ Reported("validate_disclosure")
     /\ Reported("process_disclosure_to_patent")
     /\ report["validate_disclosure"].value.kind = "validation_report"
     /\ report["validate_disclosure"].value.passed) =>
        /\ report["process_disclosure_to_patent"].value.kind = "application"
        /\ ValidationToolDisclosure(args).inventors = ProcessingToolDisclosure(args).inventors
        /\ ValidationToolDisclosure(args).beneficial_effects =
               ProcessingToolDisclosure(args).beneficial_effects

---------------------------------------------------------------------------
(* process_disclosure without validation *)

C29_WitnessValidated ==
    /\ Processed /\ processed.validate
    /\ processed.value[1] # None
    /\ processed.value[2].is_valid

---------------------------------------------------------------------------
(* The submission wizard: position and required fields *)

\* the fields of the set are saved and non-empty
FilledIn(data, fields) ==
    \A k \in fields : k \in DOMAIN data /\ StrLen(data[k]) > 0

\* the position is a step of the wizard and the steps behind it are filled in
WizardStateOk ==
    /\ session_state.current_step \in 1..4
    /\ session_state.current_step >= 2 =>
           FilledIn(session_state.disclosure_data, Step1Required)
    /\ session_state.current_step >= 3 =>
           FilledIn(session_state.disclosure_data, Step2Required)

\* nothing is left of the previous submission
Cleared(state) ==
    /\ state.disclosure_data = EmptyDict
    /\ state.validation_result = None
    /\ state.patent_result = None

\* the position moves one step forward, one step back, or restarts at step 1
\* with everything cleared
WizardMoveOk ==
    session_state'.current_step # session_state.current_step =>
        \/ session_state'.current_step = session_state.current_step + 1
        \/ session_state'.current_step = session_state.current_step - 1
        \/ session_state'.current_step = 1 /\ Cleared(session_state')

\* C30: in the submission wizard, after any sequence of button presses and
\* field edits, current_step is in 1..4 and changes only by +1, by -1 or by
\* the restart to step 1; from step 2 on the required fields of step 1 are
\* non-empty, from step 3 on the required fields of step 2 are non-empty;
\* the restart clears disclosure_data, validation_result and patent_result.
C30_WizardInvariant == [](WizardStateOk) /\ [][WizardMoveOk]_vars

\* a submission was filled in, validated and generated at step 4
C30_Witness ==
    /\ session_state.current_step = 4
    /\ session_state.validation_result # None
    /\ session_state.patent_result # None
    /\ FilledIn(session_state.disclosure_data, Step1Required \cup Step2Required)

\* step 1 again after a validation, the later steps being kept
C30_WitnessBack ==
    /\ session_state.current_step = 1
    /\ session_state.validation_result # None
    /\ FilledIn(session_state.disclosure_data, Step2Required)
    /\ ~FilledIn(session_state.disclosure_data, Step1Required)

====
